---------------------------- MODULE Spec2Model ----------------------------
(***************************************************************************)
(* Model of scripts/cost-reporting.py: the cost reporting pipeline of the  *)
(* AI Validation Platform.  One run of main() is a sequential program:     *)
(* module import, argument parsing, CostReporter.__init__ (account         *)
(* identity), the three Cost Explorer queries, report assembly, console    *)
(* summary, the JSON and CSV exports and the optional charts.              *)
(*                                                                         *)
(* Amounts are whole currency units (Python floats abstracted to exact     *)
(* integers); a quotient is kept as an exact fraction [n, d].              *)
(***************************************************************************)
EXTENDS Integers, Sequences, FiniteSets, TLC

VARIABLES
    args,             \* argparse namespace: environment, days, format, charts, quiet
    lib_available,    \* whether pandas/matplotlib/seaborn can be imported
    pc,               \* position of the run in main()
    calls,            \* number of attempts of each external call
    outcome,          \* how each external call ended
    account_id,       \* CostReporter.account_id
    cost_data,        \* raw response of get_cost_and_usage
    recommendations,  \* raw response of get_rightsizing_recommendations
    forecast_data,    \* raw response of get_usage_forecast
    processed_data,   \* result of process_cost_data
    report,           \* the assembled report
    printed,          \* whether print_summary_report has completed
    timestamp,        \* the run timestamp taken at line 486
    fs,               \* the file system: path -> [state, writer]
    generated_files,  \* main's generated_files list
    exit_code,        \* process exit status (-1 while running)
    exc,              \* the exception that ended the run ("none" if none)
    log               \* warnings and messages printed by the run

vars == <<args, lib_available, pc, calls, outcome, account_id, cost_data,
          recommendations, forecast_data, processed_data, report, printed,
          timestamp, fs, generated_files, exit_code, exc, log>>

(***************************************************************************)
(* Bounds of the model.                                                    *)
(***************************************************************************)
MaxDays == 2
MaxClock == 2
MaxBuckets == 2
MaxRows == 2

(***************************************************************************)
(* Python values.                                                          *)
(***************************************************************************)
\* The empty dict {}.
EmptyDict == [k \in {} |-> 0]

\* A local that has not been assigned yet.
NotYet == [unset |-> TRUE]

\* float(s) on the decimal strings the model uses; any other string raises
\* ValueError.
IsNumeric(s) == s \in {"-1", "0", "1", "2"}

Float(s) ==
    CASE s = "-1" -> 0 - 1
      [] s = "0" -> 0
      [] s = "1" -> 1
      [] s = "2" -> 2

\* d[k] += v on a defaultdict(float).
DictAdd(d, k, v) ==
    [x \in (DOMAIN d) \cup {k} |->
        IF x = k THEN (IF k \in DOMAIN d THEN d[k] ELSE 0) + v ELSE d[x]]

RECURSIVE SumValues(_)
\* sum(d.values())
SumValues(d) ==
    IF DOMAIN d = {} THEN 0
    ELSE LET k == CHOOSE x \in DOMAIN d : TRUE
         IN d[k] + SumValues([x \in (DOMAIN d) \ {k} |-> d[x]])

RECURSIVE SumCosts(_)
\* sum(item['cost'] for item in series)
SumCosts(series) ==
    IF series = <<>> THEN 0
    ELSE Head(series).cost + SumCosts(Tail(series))

(***************************************************************************)
(* process_cost_data (lines 134-182).                                      *)
(***************************************************************************)
EmptyProcessed ==
    [total_cost |-> 0,
     by_environment |-> EmptyDict,
     by_service |-> EmptyDict,
     by_aws_service |-> EmptyDict,
     daily_costs |-> <<>>]

\* The key at python index i-1 of a group's Keys, "unknown" when the list is
\* shorter or the component is empty (lines 157-167).
KeyOrUnknown(keys, i) ==
    IF i <= Len(keys) /\ keys[i] # "" THEN keys[i] ELSE "unknown"

\* A faulty variant of AggregateGroup: a row without a service tag is left out of the
\* by_service mapping.
AggregateGroupDropsUntagged(pd, group) ==
    LET cost == Float(group.Metrics.BlendedCost.Amount)
    IN [pd EXCEPT
          !.by_environment = DictAdd(@, KeyOrUnknown(group.Keys, 1), cost),
          !.by_service = IF KeyOrUnknown(group.Keys, 2) = "unknown" THEN @
                         ELSE DictAdd(@, KeyOrUnknown(group.Keys, 2), cost),
          !.by_aws_service = DictAdd(@, KeyOrUnknown(group.Keys, 3), cost)]

\* One iteration of the inner loop on the three mappings (lines 153-172).
AggregateGroup(pd, group) ==
    LET cost == Float(group.Metrics.BlendedCost.Amount)
    IN [pd EXCEPT
          !.by_environment = DictAdd(@, KeyOrUnknown(group.Keys, 1), cost),
          !.by_service = DictAdd(@, KeyOrUnknown(group.Keys, 2), cost),
          !.by_aws_service = DictAdd(@, KeyOrUnknown(group.Keys, 3), cost)]

RECURSIVE AggregateGroups(_, _)
\* The inner loop over result['Groups'] (lines 152-173).
AggregateGroups(pd, groups) ==
    IF groups = <<>> THEN pd
    ELSE AggregateGroups(AggregateGroup(pd, Head(groups)), Tail(groups))

RECURSIVE PeriodTotal(_)
\* period_total of one bucket (lines 150, 173).
PeriodTotal(groups) ==
    IF groups = <<>> THEN 0
    ELSE Float(Head(groups).Metrics.BlendedCost.Amount) + PeriodTotal(Tail(groups))

RECURSIVE AggregateResults(_, _)
\* The outer loop over cost_data['ResultsByTime'] (lines 148-180).
AggregateResults(pd, results) ==
    IF results = <<>> THEN pd
    ELSE LET result == Head(results)
             pd1 == AggregateGroups(pd, result.Groups)
             period_total == PeriodTotal(result.Groups)
             pd2 == [pd1 EXCEPT
                       !.daily_costs = Append(@, [date |-> result.TimePeriod.Start,
                                                  cost |-> period_total]),
                       !.total_cost = @ + period_total]
         IN AggregateResults(pd2, Tail(results))

process_cost_data(data) ==
    IF data = EmptyDict \/ "ResultsByTime" \notin DOMAIN data
    THEN EmptyProcessed
    ELSE AggregateResults(EmptyProcessed, data.ResultsByTime)


(***************************************************************************)
(* Inputs: what the provider can answer.                                   *)
(***************************************************************************)
\* All sequences over S of length at most n.
SeqsUpTo(S, n) == UNION {[1..k -> S] : k \in 0..n}

\* One grouped row of a bucket: Keys and the BlendedCost amount.
Group(keys, amount) ==
    [Keys |-> keys, Metrics |-> [BlendedCost |-> [Amount |-> amount]]]

\* The grouped rows the provider returns: full keys, an empty environment
\* tag, and a short key list carrying a credit.
GroupRows ==
    {Group(<<"prod", "api", "EC2">>, "2"),
     Group(<<"", "api", "S3">>, "1"),
     Group(<<"dev">>, "-1")}

\* The i-th day of the queried period, as the provider names it.
DayName(i) == "day" \o ToString(i)

\* A response with the given buckets; bucket i starts on day i.
CostResponse(buckets) ==
    [ResultsByTime |->
        [i \in 1..Len(buckets) |->
            [TimePeriod |-> [Start |-> DayName(i)], Groups |-> buckets[i]]]]

\* A response without the 'ResultsByTime' key.
NoResultsResponse == [ResponseMetadata |-> "ok"]

\* Every cost-query result within the bounds.
CostResponses ==
    {EmptyDict, NoResultsResponse} \cup
    {CostResponse(b) : b \in SeqsUpTo(SeqsUpTo(GroupRows, MaxRows), MaxBuckets)}


\* The cost-query results one run of the pipeline is given: the three empty
\* shapes, a bucket without rows, a zero-cost row, costs that cancel, and two
\* buckets of mixed rows.
PipelineCostResponses ==
    {EmptyDict,
     NoResultsResponse,
     CostResponse(<<>>),
     CostResponse(<< <<>> >>),
     CostResponse(<< <<Group(<<"", "", "EC2">>, "0")>> >>),
     CostResponse(<< <<Group(<<"", "api", "S3">>, "1"), Group(<<"dev">>, "-1")>> >>),
     CostResponse(<< <<Group(<<"prod", "api", "EC2">>, "2")>>,
                     <<Group(<<"", "api", "S3">>, "1"),
                       Group(<<"prod", "api", "EC2">>, "2")>> >>)}

\* Rightsizing responses: none, one complete entry, one entry without fields.
RecommendationResponses ==
    {EmptyDict,
     [RightsizingRecommendations |->
        << [AccountId |-> "123456789012", RightsizingType |-> "Modify",
            EstimatedMonthlySavings |-> "2"] >>],
     [RightsizingRecommendations |-> << [RightsizingType |-> "Terminate"] >>]}

\* One per-period entry of a forecast response.
ForecastEntry(mean) ==
    [TimePeriod |-> [Start |-> "day1", End |-> "day31"], MeanValue |-> mean]

\* A response without the 'ForecastResultsByTime' key.
NoForecastResponse == [ResponseMetadata |-> "ok"]

\* Forecast responses: the well-formed ones ...
GoodForecastResponses ==
    {[ForecastResultsByTime |-> <<>>],
     [ForecastResultsByTime |-> <<ForecastEntry("2")>>],
     [ForecastResultsByTime |-> <<ForecastEntry("1"), ForecastEntry("2")>>]}

\* ... the missing ones ...
MissingForecastResponses == {EmptyDict, NoForecastResponse}

\* ... and those with a malformed per-period entry: no period, no mean value,
\* a non-numeric mean value (after a well-formed entry).
MalformedForecastResponses ==
    {[ForecastResultsByTime |-> << [MeanValue |-> "2"] >>],
     [ForecastResultsByTime |-> << [TimePeriod |-> [Start |-> "day1", End |-> "day31"]] >>],
     [ForecastResultsByTime |-> <<ForecastEntry("1"), ForecastEntry("n/a")>>]}

ForecastResponses ==
    GoodForecastResponses \cup MissingForecastResponses \cup MalformedForecastResponses

(***************************************************************************)
(* _process_recommendations (lines 230-248), _process_forecast (250-273).  *)
(***************************************************************************)
\* d.get(k, default)
Get(d, k, default) == IF k \in DOMAIN d THEN d[k] ELSE default

_process_recommendations(recs) ==
    IF recs = EmptyDict \/ "RightsizingRecommendations" \notin DOMAIN recs
    THEN <<>>
    ELSE [i \in 1..Len(recs.RightsizingRecommendations) |->
            LET rec == recs.RightsizingRecommendations[i]
            IN [account_id |-> Get(rec, "AccountId", ""),
                current_instance |-> Get(rec, "CurrentInstance", EmptyDict),
                rightsizing_type |-> Get(rec, "RightsizingType", ""),
                modify_recommendation |-> Get(rec, "ModifyRecommendationDetail", EmptyDict),
                terminate_recommendation |-> Get(rec, "TerminateRecommendationDetail", EmptyDict),
                estimated_monthly_savings |-> Get(rec, "EstimatedMonthlySavings", "0")]]

\* The exception one iteration of the loop of _process_forecast raises on an
\* entry, "none" if none (lines 259-265).
EntryException(result) ==
    IF "TimePeriod" \notin DOMAIN result THEN "KeyError"
    ELSE IF "MeanValue" \notin DOMAIN result THEN "KeyError"
    ELSE IF ~IsNumeric(result.MeanValue) THEN "ValueError"
    ELSE IF {"Start", "End"} \subseteq DOMAIN result.TimePeriod THEN "none"
    ELSE "KeyError"

RECURSIVE ForecastLoopException(_)
\* The exception the loop raises: that of the first entry that raises.
ForecastLoopException(results) ==
    IF results = <<>> THEN "none"
    ELSE IF EntryException(Head(results)) # "none" THEN EntryException(Head(results))
    ELSE ForecastLoopException(Tail(results))

\* The exception _process_forecast raises on a response, "none" if none.
ForecastException(fd) ==
    IF fd = EmptyDict \/ "ForecastResultsByTime" \notin DOMAIN fd THEN "none"
    ELSE ForecastLoopException(fd.ForecastResultsByTime)

RECURSIVE SumMeans(_)
\* total_forecast over the entries (lines 256, 268).
SumMeans(results) ==
    IF results = <<>> THEN 0
    ELSE Float(Head(results).MeanValue) + SumMeans(Tail(results))

\* The value _process_forecast returns when it does not raise.
_process_forecast(fd) ==
    IF fd = EmptyDict \/ "ForecastResultsByTime" \notin DOMAIN fd
    THEN EmptyDict
    ELSE [total_forecasted_cost |-> SumMeans(fd.ForecastResultsByTime),
          forecast_by_period |->
            [i \in 1..Len(fd.ForecastResultsByTime) |->
                LET result == fd.ForecastResultsByTime[i]
                IN [period_start |-> result.TimePeriod.Start,
                    period_end |-> result.TimePeriod.End,
                    forecasted_cost |-> Float(result.MeanValue)]]]

(***************************************************************************)
(* generate_cost_allocation_report: the report literal (lines 203-226).    *)
(***************************************************************************)
\* The exact quotient n / d of two numbers, d # 0.
Quotient(n, d) == [n |-> n, d |-> d]

\* Whether a quotient is the number 0.
IsZero(q) == q.n = 0

\* A faulty variant of Summary: the projection adds 30 to the daily average where the
\* code multiplies by 30.
SummaryAddsThirty(pd, days) ==
    [total_cost |-> pd.total_cost,
     average_daily_cost |-> Quotient(pd.total_cost, days),
     projected_monthly_cost |-> Quotient(pd.total_cost + 30 * days, days)]

\* report['summary'] (lines 211-215); days # 0.
Summary(pd, days) ==
    [total_cost |-> pd.total_cost,
     average_daily_cost |-> Quotient(pd.total_cost, days),
     projected_monthly_cost |-> Quotient(pd.total_cost * 30, days)]

\* The exception evaluating the report literal raises, "none" if none: the
\* division by days comes first, then _process_forecast.
AssembleException(days, fd) ==
    IF days = 0 THEN "ZeroDivisionError" ELSE ForecastException(fd)

\* The report, when evaluating it does not raise.
AssembleReport(env, account, pd, days, recs, fd) ==
    [metadata |-> [environment |-> env, account_id |-> account],
     summary |-> Summary(pd, days),
     cost_breakdown |-> [by_environment |-> pd.by_environment,
                         by_service |-> pd.by_service,
                         by_aws_service |-> pd.by_aws_service],
     trends |-> [daily_costs |-> pd.daily_costs],
     recommendations |-> _process_recommendations(recs),
     forecast |-> _process_forecast(fd)]


(***************************************************************************)
(* print_summary_report (lines 398-454).                                   *)
(***************************************************************************)
\* A faulty variant of Percentage: the division is not guarded.
PercentageUnguarded(cost, total) == Quotient(cost * 100, total)

\* percentage = (cost / total * 100) if total > 0 else 0 (lines 420, 426, 433).
Percentage(cost, total) ==
    IF total > 0 THEN Quotient(cost * 100, total) ELSE Quotient(0, 1)

\* Whether a quotient is > 0.
IsPositive(q) == q.n * q.d > 0

\* change = ((forecast_cost - current_monthly) / current_monthly) * 100
\* (line 450), current_monthly being the quotient n / d.
ForecastChange(forecast_cost, current_monthly) ==
    Quotient((forecast_cost * current_monthly.d - current_monthly.n) * 100,
             current_monthly.n)

\* Whether the forecast section is printed (line 443).
ForecastShown(rep) ==
    rep.forecast # EmptyDict /\ "total_forecasted_cost" \in DOMAIN rep.forecast

\* Whether the forecast delta is computed (lines 443, 449).
ForecastChangeShown(rep) ==
    ForecastShown(rep) /\ IsPositive(rep.summary.projected_monthly_cost)

\* What the summary shows: the percentage of every listed entry (the model
\* has at most three provider services, so the top five are all of them),
\* and the forecast delta where it is computed.
PrintSummary(rep) ==
    LET total == rep.summary.total_cost
        pct(d) == [k \in DOMAIN d |-> Percentage(d[k], total)]
    IN [by_environment |-> pct(rep.cost_breakdown.by_environment),
        by_service |-> pct(rep.cost_breakdown.by_service),
        by_aws_service |-> pct(rep.cost_breakdown.by_aws_service),
        recommendations |-> Len(rep.recommendations),
        forecast |-> ForecastShown(rep),
        forecast_change |-> ForecastChangeShown(rep),
        change |-> IF ForecastChangeShown(rep)
                   THEN ForecastChange(rep.forecast.total_forecasted_cost,
                                       rep.summary.projected_monthly_cost)
                   ELSE Quotient(0, 1)]

\* The quotients print_summary_report computes.
PrintedQuotients(summary) ==
    {summary.by_environment[k] : k \in DOMAIN summary.by_environment}
    \cup {summary.by_service[k] : k \in DOMAIN summary.by_service}
    \cup {summary.by_aws_service[k] : k \in DOMAIN summary.by_aws_service}
    \cup {summary.change}

\* The exception print_summary_report raises, "none" if none: a float
\* division by zero raises ZeroDivisionError.
PrintException(rep) ==
    IF \E q \in PrintedQuotients(PrintSummary(rep)) : q.d = 0
    THEN "ZeroDivisionError" ELSE "none"

(***************************************************************************)
(* Output files: names (lines 490, 496, 291, 307, 327, 346) and contents.  *)
(***************************************************************************)
\* The default of --output (line 463).
OutputPrefix == "cost_report"

\* datetime.now().strftime('%Y%m%d_%H%M%S') of the clock value t.
Strftime(t) == "T" \o ToString(t)

\* f"{args.output}_{args.environment}_{timestamp}.json"
JsonName(output, env, ts) == <<output, "_", env, "_", ts, ".json">>

\* f"{args.output}_{args.environment}_{timestamp}.csv"
CsvName(output, env, ts) == <<output, "_", env, "_", ts, ".csv">>

\* f'{output_dir}/cost_by_environment.png' and the three others.
ChartName(output_dir, chart) == <<output_dir, "/", chart, ".png">>

\* The four charts, in the order generate_visualizations draws them.
Charts == <<"cost_by_environment", "cost_by_service", "daily_cost_trend",
            "cost_by_aws_service">>

\* Whether a chart's source data is non-empty (lines 284, 297, 313, 333).
HasData(rep, chart) ==
    CASE chart = "cost_by_environment" -> rep.cost_breakdown.by_environment # EmptyDict
      [] chart = "cost_by_service" -> rep.cost_breakdown.by_service # EmptyDict
      [] chart = "daily_cost_trend" -> rep.trends.daily_costs # <<>>
      [] chart = "cost_by_aws_service" -> rep.cost_breakdown.by_aws_service # EmptyDict

RECURSIVE ChartsWithData(_, _)
\* The names of the charts of s that have data, in order.
ChartsWithData(rep, s) ==
    IF s = <<>> THEN <<>>
    ELSE IF HasData(rep, Head(s))
         THEN <<ChartName(".", Head(s))>> \o ChartsWithData(rep, Tail(s))
         ELSE ChartsWithData(rep, Tail(s))

\* The files generate_visualizations(report, '.') saves, in order.
ChartFiles(rep) == ChartsWithData(rep, Charts)

\* What export_to_json writes: the whole report.
JsonContent(rep) == rep

\* What export_to_csv writes: summary, environment and service breakdown
\* and the daily series (lines 356-381).
CsvContent(rep) ==
    [summary |-> rep.summary,
     by_environment |-> rep.cost_breakdown.by_environment,
     by_service |-> rep.cost_breakdown.by_service,
     daily_costs |-> rep.trends.daily_costs]

\* The content of a chart image.
ChartContent(rep, path) == [chart |-> path[3]]

\* A file: absent, partial (opened for writing, not yet closed after the
\* last write) or complete; who wrote it; what it holds.
Absent == [state |-> "absent", writer |-> "nobody", content |-> NotYet]
Partial(who) == [state |-> "partial", writer |-> who, content |-> NotYet]
Complete(who, content) == [state |-> "complete", writer |-> who, content |-> content]


(***************************************************************************)
(* The command line (lines 458-472) and the environment of a run.          *)
(***************************************************************************)
\* Two of the choices of --environment: a specific one and 'all'.
Environments == {"dev", "all"}

\* --days is any integer: negative, zero, positive.
Days == (0 - 1)..MaxDays

Formats == {"json", "csv", "both"}

\* The external calls: account identity and the three billing queries.
Queries == {"cost", "rightsizing", "forecast"}
Calls == {"sts"} \cup Queries

\* The clock values a run can read at line 486; an earlier run read 0.
Clock == 1..MaxClock
PreviousTimestamp == Strftime(0)

\* Every path a run can write.
Paths ==
    {JsonName(OutputPrefix, e, Strftime(t)) : e \in Environments, t \in 0..MaxClock}
    \cup {CsvName(OutputPrefix, e, Strftime(t)) : e \in Environments, t \in 0..MaxClock}
    \cup {ChartName(".", Charts[i]) : i \in 1..Len(Charts)}

\* The files an earlier run with --format both --charts left behind.
PreviousRunFiles(env) ==
    {JsonName(OutputPrefix, env, PreviousTimestamp),
     CsvName(OutputPrefix, env, PreviousTimestamp)}
    \cup {ChartName(".", Charts[i]) : i \in 1..Len(Charts)}

PreviousContent == [previous |-> TRUE]

\* The positions of main() inside its try block (lines 474-513).
TryPcs == {"init", "get_cost", "get_rightsizing", "get_forecast", "assemble",
           "print", "timestamp", "export_json", "json_dump", "export_csv",
           "csv_write", "charts", "finish"}

\* The positions before the try block: module import, argument parsing.
PreTryPcs == {"import", "parse_args"}

Init ==
    /\ args \in [environment : Environments, days : Days, format : Formats,
                 charts : BOOLEAN, quiet : BOOLEAN]
    /\ lib_available \in BOOLEAN
    /\ pc = "import"
    /\ calls = [c \in Calls |-> 0]
    /\ outcome = [c \in Calls |-> "none"]
    /\ account_id = ""
    /\ cost_data = NotYet
    /\ recommendations = NotYet
    /\ forecast_data = NotYet
    /\ processed_data = NotYet
    /\ report = NotYet
    /\ printed = NotYet
    /\ timestamp = ""
    /\ fs = [p \in Paths |->
                IF p \in PreviousRunFiles(args.environment)
                THEN Complete("previous", PreviousContent) ELSE Absent]
    /\ generated_files = <<>>
    /\ exit_code = 0 - 1
    /\ exc = "none"
    /\ log = {}

\* The run ends with the given status because of exception e.
Exit(code, e, message) ==
    /\ pc' = "exit"
    /\ exit_code' = code
    /\ exc' = e
    /\ log' = log \cup {message}

\* The handlers of main (lines 515-520): both exit with status 1.
MainHandlerCode(e) == IF e = "KeyboardInterrupt" THEN 1 ELSE 1

MainHandlerMessage(e) ==
    IF e = "KeyboardInterrupt" THEN "cancelled by user" ELSE "error generating cost report"

\* An exception e reaches main's handlers.
Raise(e) == Exit(MainHandlerCode(e), e, MainHandlerMessage(e))

(***************************************************************************)
(* Module import (lines 8-19): pandas, matplotlib and seaborn are imported *)
(* when the script is loaded; a missing library ends the run there with an *)
(* uncaught ImportError (status 1), before main() is entered.              *)
(***************************************************************************)
Import ==
    /\ pc = "import"
    /\ IF lib_available
       THEN /\ pc' = "parse_args"
            /\ UNCHANGED <<exit_code, exc, log>>
       ELSE Exit(1, "ImportError", "traceback")
    /\ UNCHANGED <<args, lib_available, calls, outcome, account_id, cost_data,
                   recommendations, forecast_data, processed_data, report,
                   printed, timestamp, fs, generated_files>>

\* parser.parse_args() (lines 458-472): the namespace chosen in Init.
ParseArgs ==
    /\ pc = "parse_args"
    /\ pc' = "init"
    /\ UNCHANGED <<args, lib_available, calls, outcome, account_id, cost_data,
                   recommendations, forecast_data, processed_data, report,
                   printed, timestamp, fs, generated_files, exit_code, exc, log>>

(***************************************************************************)
(* CostReporter.__init__ (lines 24-41).                                    *)
(***************************************************************************)
\* How get_caller_identity can end.
IdentityOutcomes == {"ok", "NoCredentialsError", "Exception"}

\* A faulty variant of IdentityFatal: only missing credentials end the run.
IdentityFatalOnlyNoCredentials(o) == o = "NoCredentialsError"

\* Whether __init__ calls sys.exit(1) (lines 36-41).
IdentityFatal(o) == o # "ok"

InitReporter ==
    /\ pc = "init"
    /\ \E o \in IdentityOutcomes :
        /\ calls' = [calls EXCEPT !["sts"] = @ + 1]
        /\ outcome' = [outcome EXCEPT !["sts"] = o]
        /\ IF IdentityFatal(o)
           THEN /\ Exit(1, o, "error initializing")
                /\ UNCHANGED account_id
           ELSE /\ pc' = "get_cost"
                /\ account_id' = IF o = "ok" THEN "123456789012" ELSE ""
                /\ log' = log \cup {"connected"}
                /\ UNCHANGED <<exit_code, exc>>
    /\ UNCHANGED <<args, lib_available, cost_data, recommendations,
                   forecast_data, processed_data, report, printed, timestamp,
                   fs, generated_files>>

(***************************************************************************)
(* The three billing queries (lines 43-132), as generate_cost_allocation_  *)
(* report calls them (lines 192-201).                                      *)
(***************************************************************************)
\* How a Cost Explorer call can end: a response, an error response of the
\* service (botocore's ClientError), or any other exception of the SDK
\* (a BotoCoreError such as EndpointConnectionError).
QueryOutcomes == {"ok", "ClientError", "BotoCoreError"}

\* A faulty variant of Caught: the rightsizing query has no handler.
CaughtButRightsizing(q, o) == o = "ClientError" /\ q # "rightsizing"

\* Whether the wrapper of query q catches the exception (lines 84, 106, 130).
Caught(q, o) == o = "ClientError"

\* A faulty variant of AfterQuery: a failed cost query is tried again.
AfterQueryRetriesCost(q, o) ==
    CASE q = "cost" -> IF o = "ClientError" THEN "get_cost" ELSE "get_rightsizing"
      [] q = "rightsizing" -> "get_forecast"
      [] q = "forecast" -> "assemble"

\* A faulty variant of AfterQuery: the report is assembled right after the
\* rightsizing query, the forecast query is left out.
AfterQuerySkipsForecast(q, o) ==
    CASE q = "cost" -> "get_rightsizing"
      [] q = "rightsizing" -> "assemble"
      [] q = "forecast" -> "assemble"

\* Where generate_cost_allocation_report goes on when the wrapper of query q
\* has returned (lines 192-203).
AfterQuery(q, o) ==
    CASE q = "cost" -> "get_rightsizing"
      [] q = "rightsizing" -> "get_forecast"
      [] q = "forecast" -> "assemble"

\* One call of a wrapper: the attempt is counted; a response or a caught
\* error returns (the latter as {}), anything else reaches main.
Query(q, o) ==
    /\ calls' = [calls EXCEPT ![q] = @ + 1]
    /\ outcome' = [outcome EXCEPT ![q] = o]
    /\ IF o = "ok" \/ Caught(q, o)
       THEN /\ pc' = AfterQuery(q, o)
            /\ log' = IF o = "ok" THEN log ELSE log \cup {q \o " not available"}
            /\ UNCHANGED <<exit_code, exc>>
       ELSE Raise(o)

\* What the wrapper returns: the response, or {} after a caught error.
Returned(o, response) == IF o = "ok" THEN response ELSE EmptyDict

GetCost ==
    /\ pc = "get_cost"
    /\ \E o \in QueryOutcomes :
        /\ Query("cost", o)
        /\ IF o = "ok" \/ Caught("cost", o)
           THEN \E r \in (IF o = "ok" THEN PipelineCostResponses ELSE {EmptyDict}) :
                    /\ cost_data' = Returned(o, r)
                    /\ processed_data' = process_cost_data(Returned(o, r))
           ELSE UNCHANGED <<cost_data, processed_data>>
    /\ UNCHANGED <<args, lib_available, account_id, recommendations,
                   forecast_data, report, printed, timestamp, fs, generated_files>>

GetRightsizing ==
    /\ pc = "get_rightsizing"
    /\ \E o \in QueryOutcomes :
        /\ Query("rightsizing", o)
        /\ IF o = "ok" \/ Caught("rightsizing", o)
           THEN \E r \in (IF o = "ok" THEN RecommendationResponses ELSE {EmptyDict}) :
                    recommendations' = Returned(o, r)
           ELSE UNCHANGED recommendations
    /\ UNCHANGED <<args, lib_available, account_id, cost_data, processed_data,
                   forecast_data, report, printed, timestamp, fs, generated_files>>

GetForecast ==
    /\ pc = "get_forecast"
    /\ \E o \in QueryOutcomes :
        /\ Query("forecast", o)
        /\ IF o = "ok" \/ Caught("forecast", o)
           THEN \E r \in (IF o = "ok" THEN ForecastResponses ELSE {EmptyDict}) :
                    forecast_data' = Returned(o, r)
           ELSE UNCHANGED forecast_data
    /\ UNCHANGED <<args, lib_available, account_id, cost_data, processed_data,
                   recommendations, report, printed, timestamp, fs, generated_files>>

(***************************************************************************)
(* The report literal (lines 203-228).                                     *)
(***************************************************************************)
Assemble ==
    /\ pc = "assemble"
    /\ LET e == AssembleException(args.days, forecast_data)
       IN IF e = "none"
          THEN /\ report' = AssembleReport(args.environment, account_id, processed_data,
                                           args.days, recommendations, forecast_data)
               /\ pc' = "print"
               /\ UNCHANGED <<exit_code, exc, log>>
          ELSE /\ Raise(e)
               /\ UNCHANGED report
    /\ UNCHANGED <<args, lib_available, calls, outcome, account_id, cost_data,
                   recommendations, forecast_data, processed_data, printed,
                   timestamp, fs, generated_files>>


(***************************************************************************)
(* main after the report (lines 481-513).                                  *)
(***************************************************************************)
\* if not args.quiet: reporter.print_summary_report(report)
PrintReport ==
    /\ pc = "print"
    /\ IF ~args.quiet /\ PrintException(report) # "none"
       THEN /\ Raise(PrintException(report))
            /\ UNCHANGED printed
       ELSE /\ printed' = IF args.quiet THEN printed ELSE PrintSummary(report)
            /\ pc' = "timestamp"
            /\ UNCHANGED <<exit_code, exc, log>>
    /\ UNCHANGED <<args, lib_available, calls, outcome, account_id, cost_data,
                   recommendations, forecast_data, processed_data, report,
                   timestamp, fs, generated_files>>

\* timestamp = datetime.now().strftime(...); generated_files = []
Timestamp ==
    /\ pc = "timestamp"
    /\ \E t \in Clock : timestamp' = Strftime(t)
    /\ generated_files' = <<>>
    /\ pc' = "export_json"
    /\ UNCHANGED <<args, lib_available, calls, outcome, account_id, cost_data,
                   recommendations, forecast_data, processed_data, report,
                   printed, fs, exit_code, exc, log>>

json_file == JsonName(OutputPrefix, args.environment, timestamp)
csv_file == CsvName(OutputPrefix, args.environment, timestamp)

\* How open(filename, 'w') can end.
OpenOutcomes == {"ok", "OSError"}

\* open(filename, 'w') creates or truncates the file; what is written until
\* the with block is left is in the file, which is not complete before.
Open(path, o, next) ==
    IF o = "ok"
    THEN /\ fs' = [fs EXCEPT ![path] = Partial("this")]
         /\ pc' = next
         /\ UNCHANGED <<exit_code, exc, log>>
    ELSE /\ Raise(o)
         /\ UNCHANGED fs

\* export_to_json, line 393: the file is opened (lines 489-491).
ExportJson ==
    /\ pc = "export_json"
    /\ IF args.format \in {"json", "both"}
       THEN \E o \in OpenOutcomes : Open(json_file, o, "json_dump")
       ELSE /\ pc' = "export_csv"
            /\ UNCHANGED <<fs, exit_code, exc, log>>
    /\ UNCHANGED <<args, lib_available, calls, outcome, account_id, cost_data,
                   recommendations, forecast_data, processed_data, report,
                   printed, timestamp, generated_files>>

\* export_to_json, lines 394-396: json.dump writes the document and the
\* file is closed (lines 492-493).
JsonDump ==
    /\ pc = "json_dump"
    /\ fs' = [fs EXCEPT ![json_file] = Complete("this", JsonContent(report))]
    /\ generated_files' = Append(generated_files, json_file)
    /\ log' = log \cup {"JSON report saved"}
    /\ pc' = "export_csv"
    /\ UNCHANGED <<args, lib_available, calls, outcome, account_id, cost_data,
                   recommendations, forecast_data, processed_data, report,
                   printed, timestamp, exit_code, exc>>

\* export_to_csv, line 384: the file is opened (lines 495-497).
ExportCsv ==
    /\ pc = "export_csv"
    /\ IF args.format \in {"csv", "both"}
       THEN \E o \in OpenOutcomes : Open(csv_file, o, "csv_write")
       ELSE /\ pc' = "charts"
            /\ UNCHANGED <<fs, exit_code, exc, log>>
    /\ UNCHANGED <<args, lib_available, calls, outcome, account_id, cost_data,
                   recommendations, forecast_data, processed_data, report,
                   printed, timestamp, generated_files>>

\* export_to_csv, lines 385-389: the rows are written and the file is closed
\* (lines 498-499).
CsvWrite ==
    /\ pc = "csv_write"
    /\ fs' = [fs EXCEPT ![csv_file] = Complete("this", CsvContent(report))]
    /\ generated_files' = Append(generated_files, csv_file)
    /\ log' = log \cup {"CSV report saved"}
    /\ pc' = "charts"
    /\ UNCHANGED <<args, lib_available, calls, outcome, account_id, cost_data,
                   recommendations, forecast_data, processed_data, report,
                   printed, timestamp, exit_code, exc>>

\* How generate_visualizations can end: it returns, or raises an exception
\* that one of the two handlers of lines 507-510 catches.
ChartOutcomes == {"ok", "ImportError", "Exception"}

\* The warning main prints for a chart failure (lines 508, 510).
ChartWarning(o) ==
    IF o = "ImportError" THEN "visualization libraries not available"
    ELSE "error generating charts"

\* The file system after the first k of the given chart files are saved.
SaveCharts(files, k) ==
    [p \in Paths |->
        IF \E i \in 1..k : files[i] = p
        THEN Complete("this", ChartContent(report, p))
        ELSE fs[p]]

\* Lines 501-510: generate_visualizations saves the charts that have data,
\* or raises before the (k+1)-th is saved (k = 0: plt.style.use raises).
GenerateCharts ==
    /\ pc = "charts"
    /\ IF args.charts
       THEN \E o \in ChartOutcomes :
              LET files == ChartFiles(report)
              IN IF o = "ok"
                 THEN /\ fs' = SaveCharts(files, Len(files))
                      /\ generated_files' = generated_files \o files
                      /\ log' = log \cup {"generated charts"}
                 ELSE \E k \in {0} \cup (0..(Len(files) - 1)) :
                      /\ fs' = SaveCharts(files, k)
                      /\ log' = log \cup {ChartWarning(o)}
                      /\ UNCHANGED generated_files
       ELSE UNCHANGED <<fs, generated_files, log>>
    /\ pc' = "finish"
    /\ UNCHANGED <<args, lib_available, calls, outcome, account_id, cost_data,
                   recommendations, forecast_data, processed_data, report,
                   printed, timestamp, exit_code, exc>>

\* Lines 512-513: the run completes with status 0.
Finish ==
    /\ pc = "finish"
    /\ Exit(0, "none", "completed successfully")
    /\ UNCHANGED <<args, lib_available, calls, outcome, account_id, cost_data,
                   recommendations, forecast_data, processed_data, report,
                   printed, timestamp, fs, generated_files>>

(***************************************************************************)
(* A user interrupt (SIGINT) raises KeyboardInterrupt at the current       *)
(* position.  Inside main's try block line 515 catches it; no handler      *)
(* inside the block does (they catch Exception).  Before the block nothing *)
(* catches it: the interpreter ends with status 1, or is killed by SIGINT  *)
(* (status 130), depending on its version.                                 *)
(***************************************************************************)
UncaughtInterruptCodes == {1, 130}

Interrupt ==
    /\ \/ /\ pc \in TryPcs
          /\ Raise("KeyboardInterrupt")
       \/ /\ pc \in PreTryPcs
          /\ \E code \in UncaughtInterruptCodes :
                Exit(code, "KeyboardInterrupt", "traceback")
    /\ UNCHANGED <<args, lib_available, calls, outcome, account_id, cost_data,
                   recommendations, forecast_data, processed_data, report,
                   printed, timestamp, fs, generated_files>>

Next ==
    \/ Import
    \/ ParseArgs
    \/ InitReporter
    \/ GetCost
    \/ GetRightsizing
    \/ GetForecast
    \/ Assemble
    \/ PrintReport
    \/ Timestamp
    \/ ExportJson
    \/ JsonDump
    \/ ExportCsv
    \/ CsvWrite
    \/ GenerateCharts
    \/ Finish
    \/ Interrupt

Spec == Init /\ [][Next]_vars


(***************************************************************************)
(* The aggregator on every cost-query result within the bounds: the run is *)
(* at line 193 with the response in hand, identity resolved, and the other *)
(* two queries answering nothing; process_cost_data and the report literal *)
(* are applied to it.                                                      *)
(***************************************************************************)
InitAgg ==
    /\ args \in [environment : {"all"}, days : {1, MaxDays}, format : {"both"},
                 charts : {FALSE}, quiet : {TRUE}]
    /\ lib_available = TRUE
    /\ pc = "process_cost_data"
    /\ calls = [c \in Calls |-> IF c \in {"sts", "cost"} THEN 1 ELSE 0]
    /\ outcome = [c \in Calls |-> IF c \in {"sts", "cost"} THEN "ok" ELSE "none"]
    /\ account_id = "123456789012"
    /\ cost_data \in CostResponses
    /\ recommendations = EmptyDict
    /\ forecast_data = EmptyDict
    /\ processed_data = NotYet
    /\ report = NotYet
    /\ printed = NotYet
    /\ timestamp = ""
    /\ fs = [p \in Paths |-> Absent]
    /\ generated_files = <<>>
    /\ exit_code = 0 - 1
    /\ exc = "none"
    /\ log = {"connected"}

\* processed_data = self.process_cost_data(cost_data) (line 193)
ProcessCostData ==
    /\ pc = "process_cost_data"
    /\ processed_data' = process_cost_data(cost_data)
    /\ pc' = "assemble"
    /\ UNCHANGED <<args, lib_available, calls, outcome, account_id, cost_data,
                   recommendations, forecast_data, report, printed, timestamp,
                   fs, generated_files, exit_code, exc, log>>

NextAgg ==
    \/ ProcessCostData
    \/ Assemble

SpecAgg == InitAgg /\ [][NextAgg]_vars

(***************************************************************************)
(* C1.  The report built from any cost-query result has equal sums: the    *)
(* values of by_environment, of by_service and of by_aws_service, the      *)
(* costs of the daily series, and summary.total_cost.                      *)
(***************************************************************************)
ReportSumsAgree ==
    report # NotYet =>
        /\ SumValues(report.cost_breakdown.by_environment) = report.summary.total_cost
        /\ SumValues(report.cost_breakdown.by_service) = report.summary.total_cost
        /\ SumValues(report.cost_breakdown.by_aws_service) = report.summary.total_cost
        /\ SumCosts(report.trends.daily_costs) = report.summary.total_cost

\* A report of two buckets with rows that lack key components, spread over
\* several keys, with a non-zero total.
ReportSumsWitness ==
    /\ report # NotYet
    /\ Len(report.trends.daily_costs) = 2
    /\ "unknown" \in DOMAIN report.cost_breakdown.by_environment
    /\ "unknown" \in DOMAIN report.cost_breakdown.by_service
    /\ Cardinality(DOMAIN report.cost_breakdown.by_aws_service) >= 2
    /\ report.summary.total_cost = 3


(***************************************************************************)
(* Notions the claims about a run share.                                   *)
(***************************************************************************)
\* The raw result generate_cost_allocation_report holds for a query.
Raw(q) ==
    CASE q = "cost" -> cost_data
      [] q = "rightsizing" -> recommendations
      [] q = "forecast" -> forecast_data

\* The export files --format asks for exist, complete, holding the report.
RequestedExportsWritten ==
    /\ args.format \in {"json", "both"} =>
          fs[json_file] = Complete("this", JsonContent(report))
    /\ args.format \in {"csv", "both"} =>
          fs[csv_file] = Complete("this", CsvContent(report))

\* This run has written (or begun to write) no file.
NoFileWritten == \A p \in Paths : fs[p].writer # "this"

\* Exceptions whose origin is none of the billing queries' error responses
\* nor the cost data: a user interrupt, a file that cannot be opened, an SDK
\* exception that is not an error response, a malformed forecast entry.
FaultsOfOtherOrigin ==
    {"KeyboardInterrupt", "OSError", "BotoCoreError", "KeyError", "ValueError"}

\* Whether string x is one of the parts a file name is built from.
InName(x, path) == \E i \in DOMAIN path : path[i] = x

(***************************************************************************)
(* C2.  With days <= 0 the run makes no network call: neither the account  *)
(* identity call nor any billing query is issued.                          *)
(***************************************************************************)
NonPositiveDaysMakeNoCall ==
    args.days <= 0 => \A c \in Calls : calls[c] = 0

(***************************************************************************)
(* C3.  When account identity resolution fails the run ends with a         *)
(* non-zero status, no billing query is issued, no report is assembled and *)
(* no file is written.                                                     *)
(***************************************************************************)
IdentityFailureIsFatal ==
    outcome["sts"] \notin {"none", "ok"} =>
        /\ pc = "exit"
        /\ exit_code > 0
        /\ \A q \in Queries : calls[q] = 0
        /\ report = NotYet
        /\ NoFileWritten

\* The identity call failed, with missing credentials or otherwise.
IdentityFailureWitness ==
    /\ pc = "exit"
    /\ outcome["sts"] = "Exception"
    /\ calls["sts"] = 1

(***************************************************************************)
(* C4.  With days > 0 and identity resolved, an error response (botocore   *)
(* ClientError) to any billing query is not fatal: the call yields {}, the *)
(* exception never ends the run, the report's section for it is zero or    *)
(* empty, and, no fault of another origin occurring, the requested export  *)
(* files are written and the run exits with status 0.                      *)
(***************************************************************************)
QueryErrorIsNonFatal ==
    /\ \A q \in Queries :
          outcome[q] = "ClientError" => Raw(q) = EmptyDict /\ exc # "ClientError"
    /\ report # NotYet =>
          /\ outcome["cost"] = "ClientError" =>
                /\ report.summary.total_cost = 0
                /\ report.cost_breakdown.by_environment = EmptyDict
                /\ report.cost_breakdown.by_service = EmptyDict
                /\ report.cost_breakdown.by_aws_service = EmptyDict
                /\ report.trends.daily_costs = <<>>
          /\ outcome["rightsizing"] = "ClientError" => report.recommendations = <<>>
          /\ outcome["forecast"] = "ClientError" => report.forecast = EmptyDict
    /\ ( /\ pc = "exit"
         /\ args.days > 0
         /\ outcome["sts"] = "ok"
         /\ \E q \in Queries : outcome[q] = "ClientError"
         /\ exc \notin FaultsOfOtherOrigin )
       => exit_code = 0 /\ RequestedExportsWritten

\* A completed run in which all three queries were answered with an error.
QueryErrorWitness ==
    /\ pc = "exit"
    /\ args.days > 0
    /\ exit_code = 0
    /\ \A q \in Queries : outcome[q] = "ClientError"
    /\ args.format = "both"
    /\ fs[json_file].state = "complete"

(***************************************************************************)
(* C5.  A missing or malformed forecast response gives the empty forecast  *)
(* section and does not end the run.                                       *)
(***************************************************************************)
BadForecastGivesEmptySection ==
    ( /\ args.days > 0
      /\ forecast_data \in MissingForecastResponses \cup MalformedForecastResponses )
    =>
        /\ exc \notin {"KeyError", "ValueError"}
        /\ report # NotYet => report.forecast = EmptyDict

(***************************************************************************)
(* C6.  For days > 0 an empty cost-query result ({}, no 'ResultsByTime',   *)
(* or zero buckets) gives a report with total, daily average and monthly   *)
(* projection 0, empty breakdown mappings and an empty daily series; no    *)
(* exception comes of it: unless a fault of another origin ends the run,   *)
(* the summary is printed (if not quiet), the requested exports are        *)
(* written and the run exits with status 0.                                *)
(***************************************************************************)
EmptyCostResults == {EmptyDict, NoResultsResponse, CostResponse(<<>>)}

EmptyCostResultGivesZeroReport ==
    (cost_data \in EmptyCostResults /\ args.days > 0) =>
        /\ exc # "ZeroDivisionError"
        /\ report # NotYet =>
              /\ report.summary.total_cost = 0
              /\ IsZero(report.summary.average_daily_cost)
              /\ IsZero(report.summary.projected_monthly_cost)
              /\ report.cost_breakdown.by_environment = EmptyDict
              /\ report.cost_breakdown.by_service = EmptyDict
              /\ report.cost_breakdown.by_aws_service = EmptyDict
              /\ report.trends.daily_costs = <<>>
        /\ (pc = "exit" /\ exc \notin FaultsOfOtherOrigin) =>
              /\ exit_code = 0
              /\ RequestedExportsWritten
              /\ ~args.quiet => printed # NotYet

\* A completed run on a response without 'ResultsByTime', printed, exported
\* in both formats, with charts requested.
EmptyCostResultWitness ==
    /\ pc = "exit"
    /\ exit_code = 0
    /\ outcome["cost"] = "ok"
    /\ cost_data = NoResultsResponse
    /\ args.days = 2
    /\ args.format = "both"
    /\ args.charts
    /\ printed # NotYet

(***************************************************************************)
(* C7.  Each external call is attempted at most once in a run, whether it  *)
(* succeeds or fails.                                                      *)
(***************************************************************************)
AtMostOneAttemptPerCall == \A c \in Calls : calls[c] <= 1

\* A completed run in which two queries failed and every call was made.
OneAttemptWitness ==
    /\ pc = "exit"
    /\ args.days > 0
    /\ exit_code = 0
    /\ outcome["cost"] = "ClientError"
    /\ outcome["forecast"] = "ClientError"
    /\ \A c \in Calls : calls[c] = 1

(***************************************************************************)
(* C8.  After a user interrupt the run has a non-zero status and no export *)
(* file is partially written.                                              *)
(***************************************************************************)
InterruptLeavesNoPartialFile ==
    (args.days > 0 /\ exc = "KeyboardInterrupt") =>
        /\ exit_code > 0
        /\ \A p \in Paths : fs[p].state # "partial"

(***************************************************************************)
(* C9.  When charts are requested and the chart library is unavailable or  *)
(* chart generation fails, the run (not interrupted) still prints the      *)
(* summary, writes the requested exports and exits with status 0.          *)
(***************************************************************************)
ChartFailureIsNonFatal ==
    ( /\ pc = "exit"
      /\ args.charts
      /\ exc # "KeyboardInterrupt"
      /\ \/ ~lib_available
         \/ \E o \in ChartOutcomes \ {"ok"} : ChartWarning(o) \in log )
    => /\ exit_code = 0
       /\ RequestedExportsWritten
       /\ ~args.quiet => printed # NotYet

(***************************************************************************)
(* C10.  Every file a run writes has a name containing the environment     *)
(* selector and the run timestamp, so it is no file of an earlier run with *)
(* another timestamp.                                                      *)
(***************************************************************************)
ArtifactNamesCarryEnvironmentAndTimestamp ==
    \A p \in Paths :
        (args.days > 0 /\ fs[p].writer = "this") =>
            /\ InName(args.environment, p)
            /\ InName(timestamp, p)
            /\ p \notin PreviousRunFiles(args.environment)


(***************************************************************************)
(* C11.  In the console summary every percentage is cost/total*100 when    *)
(* total_cost > 0 and 0 otherwise, and the forecast delta is computed only *)
(* when projected_monthly_cost > 0; so for a report with total_cost = 0    *)
(* print_summary_report raises no division by zero and shows 0% for every  *)
(* listed entry.                                                           *)
(***************************************************************************)
\* The percentages shown for mapping d are the stated ones.
StatedPercentages(shown, d, total) ==
    /\ DOMAIN shown = DOMAIN d
    /\ \A k \in DOMAIN d :
          /\ total > 0 => shown[k] = [n |-> d[k] * 100, d |-> total]
          /\ total <= 0 => shown[k].n = 0 /\ shown[k].d # 0

SummaryPercentagesGuarded ==
    report # NotYet =>
        LET total == report.summary.total_cost
        IN /\ exc # "ZeroDivisionError"
           /\ printed # NotYet =>
                /\ StatedPercentages(printed.by_environment,
                                     report.cost_breakdown.by_environment, total)
                /\ StatedPercentages(printed.by_service,
                                     report.cost_breakdown.by_service, total)
                /\ StatedPercentages(printed.by_aws_service,
                                     report.cost_breakdown.by_aws_service, total)
                /\ printed.forecast_change =>
                      report.summary.projected_monthly_cost.n
                        * report.summary.projected_monthly_cost.d > 0
                /\ printed.change.d # 0
           /\ (total = 0 /\ ~args.quiet /\ pc \in {"timestamp", "finish"}) =>
                printed # NotYet

\* A printed summary of a zero-total report that has non-zero breakdown
\* entries and forecast data.
ZeroTotalSummaryWitness ==
    /\ printed # NotYet
    /\ report.summary.total_cost = 0
    /\ \E k \in DOMAIN report.cost_breakdown.by_environment :
          report.cost_breakdown.by_environment[k] # 0
    /\ printed.forecast
    /\ ~printed.forecast_change
    /\ args.days > 0


(***************************************************************************)
(* C12.  No export or chart file is written before identity resolution,    *)
(* the cost query, the rightsizing query, the forecast query and report    *)
(* assembly have completed, in that order, and (unless --quiet) the        *)
(* summary has been printed; a run that ends before those stages are done  *)
(* exits with a non-zero status having written no file.                    *)
(***************************************************************************)
OutputsFollowPipeline ==
    /\ calls["cost"] > 0 => outcome["sts"] = "ok"
    /\ calls["rightsizing"] > 0 => cost_data # NotYet /\ processed_data # NotYet
    /\ calls["forecast"] > 0 => recommendations # NotYet
    /\ report # NotYet => forecast_data # NotYet
    /\ printed # NotYet => report # NotYet
    /\ timestamp # "" => report # NotYet
    /\ ~NoFileWritten =>
          /\ \A c \in Calls : calls[c] = 1
          /\ report # NotYet
          /\ timestamp # ""
          /\ ~args.quiet => printed # NotYet
    /\ (pc = "exit" /\ (report = NotYet \/ (~args.quiet /\ printed = NotYet))) =>
          exit_code > 0 /\ NoFileWritten

\* A completed run that printed the summary and wrote both exports and a
\* chart.
OutputsFollowPipelineWitness ==
    /\ pc = "exit"
    /\ exit_code = 0
    /\ args.days > 0
    /\ ~args.quiet
    /\ args.format = "both"
    /\ fs[json_file].writer = "this"
    /\ fs[csv_file].writer = "this"
    /\ \E i \in 1..Len(Charts) : fs[ChartName(".", Charts[i])].writer = "this"

=============================================================================
